---- MODULE Spec2Model ----
(***************************************************************************)
(* A model of bevy_trail (src/src/main.rs): the per-frame trail buffer     *)
(* update (update_trails), the mesh regeneration (generate_trail_meshes)   *)
(* and the ribbon triangulation (create_trail_mesh).                       *)
(*                                                                         *)
(* Time is counted in whole seconds.  Every value the model uses is a      *)
(* small integer, which f32 and Duration represent exactly, so the f32     *)
(* subtraction and comparison of update_trails are the integer ones.       *)
(* emit_rate is counted in emissions per RateBase seconds, so that         *)
(* 1.0 / emit_rate is the whole number RateBase \div emit_rate.            *)
(*                                                                         *)
(* The two systems touch only the trail they iterate over; the model       *)
(* follows one trail of the query.  Its owner moves along the X axis at    *)
(* one unit a second and its width is the largest of Widths; what          *)
(* create_trail_mesh does with other positions and widths is the matter    *)
(* of SpecMesh.                                                            *)
(*                                                                         *)
(* Commands are deferred: a system only queues them, and the queue is      *)
(* applied, in the order queued, once both systems of the Update schedule  *)
(* have run.                                                               *)
(***************************************************************************)
EXTENDS Integers, Sequences, FiniteSets

VARIABLES
    pc,          \* "idle" between frames, "update" while the Update schedule runs
    ran,         \* the systems of the schedule that have run in this frame
    time,        \* Res<Time>: [elapsed, delta]
    trail,       \* the Trail component
    commands,    \* the deferred command queue
    world,       \* the live mesh entities: entity id -> its mesh
    nextEntity,  \* the next entity id the allocator hands out
    emitted,     \* history: how many points have been pushed so far
    agedOut,     \* history: the age cap has removed a point
    lastEmit,    \* history: <<timestamp of the latest push>>, <<>> before the first
    spawned,     \* history: every entity id spawned for the trail
    lenPrev,     \* history: buffer length at the end of the previous frame
    staleMesh    \* history: the mesh entity that was live when, in the previous
                 \*          frame, the buffer dropped from >= 2 points to 1

vars == <<pc, ran, time, trail, commands, world, nextEntity,
          emitted, agedOut, lastEmit, spawned, lenPrev, staleMesh>>

\* Option<Entity>::None; entity ids start at 1
None == 0

----------------------------------------------------------------------------
(* Bounds of the model *)

MaxTime == 22       \* frames stop once elapsed time would pass this
MaxDelta == 6       \* largest frame delta
MaxPoints == 2      \* largest max_points
MaxEntities == 3    \* entity ids the allocator may hand out
MaxPos == 2         \* SpecMesh: positions are 0..MaxPos
MaxWidth == 1       \* SpecMesh: widths are 0..MaxWidth
MaxLen == 4         \* SpecMesh: longest buffer
RateBase == 8       \* emit_rate is counted per RateBase seconds
MaxEmit == 3        \* frames that push a point stop after this many pushes

Deltas == 0..MaxDelta
Positions == 0..MaxPos
Widths == 0..MaxWidth
\* one point every RateBase seconds, or one a second
EmitRates == {1, RateBase}

Min(a, b) == IF a < b THEN a ELSE b

----------------------------------------------------------------------------
(* Timer (bevy Timer in TimerMode::Repeating, as used by Trail) *)

\* Timer::from_seconds(1.0 / emit_rate, TimerMode::Repeating)
TimerFromRate(emit_rate) ==
    [duration |-> RateBase \div emit_rate, elapsed |-> 0, times_finished |-> 0]

\* a timer that fires but never starts its next interval
TimerTickNoRestart(timer, delta) ==
    LET e == timer.elapsed + delta IN
    IF e >= timer.duration
        THEN [timer EXCEPT !.elapsed = e, !.times_finished = e \div timer.duration]
        ELSE [timer EXCEPT !.elapsed = e, !.times_finished = 0]

\* trail.timer.tick(time.delta()): a repeating timer keeps the remainder
TimerTick(timer, delta) ==
    LET e == timer.elapsed + delta IN
    IF e >= timer.duration
        THEN [timer EXCEPT !.elapsed = e % timer.duration,
                           !.times_finished = e \div timer.duration]
        ELSE [timer EXCEPT !.elapsed = e, !.times_finished = 0]

\* trail.timer.just_finished()
JustFinished(timer) == timer.times_finished > 0

----------------------------------------------------------------------------
(* Trail *)

max_age == 5

\* Trail::new(max_points, emit_rate, width, material)
TrailNew(max_points, emit_rate, width) ==
    [max_points |-> max_points, emit_rate |-> emit_rate, width |-> width,
     timer |-> TimerFromRate(emit_rate), points |-> <<>>, mesh_entity |-> None]

\* TrailPoint; n is the serial number of the push that made it (history only)
TrailPoint(position, timestamp, n) ==
    [position |-> position, timestamp |-> timestamp, n |-> n]

\* a catch-up loop: one point for every interval the timer completed
RECURSIVE PushTimes(_, _, _, _, _)
PushTimes(points, k, position, now, n) ==
    IF k = 0 THEN points
    ELSE PushTimes(Append(points, TrailPoint(position, now, n + 1)),
                   k - 1, position, now, n + 1)

EmitCatchUp(points, timer, position, now, n) ==
    PushTimes(points, timer.times_finished, position, now, n)

\* if trail.timer.just_finished() { ...; trail.points.push_back(new_point); ...
Emit(points, timer, position, now, n) ==
    IF JustFinished(timer)
        THEN Append(points, TrailPoint(position, now, n + 1))
        ELSE points

\* a count cap that drops the newest points: pop_back for pop_front
RECURSIVE PopOverCapBack(_, _)
PopOverCapBack(points, max_points) ==
    IF Len(points) > max_points
        THEN PopOverCapBack(SubSeq(points, 1, Len(points) - 1), max_points)
        ELSE points

\* while trail.points.len() > trail.max_points { trail.points.pop_front(); }
RECURSIVE PopOverCap(_, _)
PopOverCap(points, max_points) ==
    IF Len(points) > max_points
        THEN PopOverCap(Tail(points), max_points)
        ELSE points

\* the count cap sits inside the just_finished branch
CountCap(points, timer, max_points) ==
    IF JustFinished(timer) THEN PopOverCap(points, max_points) ELSE points

\* an age cap that looks at the front once: if for while
AgeCapOnce(points, now) ==
    IF points # <<>> /\ now - Head(points).timestamp > max_age
        THEN Tail(points)
        ELSE points

\* while let Some(front) = points.front() { if now - front.timestamp > max_age ...
RECURSIVE AgeCap(_, _)
AgeCap(points, now) ==
    IF points # <<>> /\ now - Head(points).timestamp > max_age
        THEN AgeCap(Tail(points), now)
        ELSE points

\* if trail.points.is_empty() { if let Some(mesh_entity) = trail.mesh_entity {
CleanupNeeded(points, mesh_entity) == points = <<>> /\ mesh_entity # None

\* a cleanup that forgets the entity without despawning it
CleanupCommandsNone(mesh_entity) == <<>>

\* commands.entity(mesh_entity).despawn()
CleanupCommands(mesh_entity) == <<[op |-> "despawn", entity |-> mesh_entity]>>

----------------------------------------------------------------------------
(* create_trail_mesh                                                       *)
(* The object moves along the X axis: a position is the x coordinate of a  *)
(* Vec3 whose y and z are 0.  A direction is then (s, 0, 0) with s the     *)
(* sign of the x difference, dir.dot(Vec3::Y) is 0, and the side vector    *)
(* dir.cross(Vec3::Y).normalize() is (0, 0, s), or NaN when s = 0.         *)
(* A scalar that need not be whole is the fraction <<numerator,            *)
(* denominator>>; NaN is <<0, 0>>.                                         *)

\* (x) as u32: every index of the model is far below 2^31, where the cast
\* keeps the value
AsU32(x) == x

\* normalize_or_zero of an X-axis vector: its sign
Sgn(x) == IF x > 0 THEN 1 ELSE IF x < 0 THEN -1 ELSE 0

\* the direction at point i (0-based) of the buffer
Direction(points, i) ==
    LET n == Len(points) IN
    IF i = 0
        THEN Sgn(points[i + 2].position - points[i + 1].position)
    ELSE IF i = n - 1
        THEN Sgn(points[i + 1].position - points[i].position)
    ELSE Sgn((points[i + 1].position - points[i].position)
             + (points[i + 2].position - points[i + 1].position))

\* z of  position -/+ right * current_width, current_width = width * 0.5 * progress
SideOffset(dir, sign, width, i, n) ==
    IF dir = 0 THEN <<0, 0>> ELSE <<sign * dir * width * i, 2 * (n - 1)>>

\* for (i, point) in points.iter().enumerate() { ... }
RECURSIVE VertexLoop(_, _, _, _)
VertexLoop(points, width, i, acc) ==
    IF i >= Len(points) THEN acc
    ELSE LET n == Len(points)
             x == points[i + 1].position
             dir == Direction(points, i)
             progress == <<i, n - 1>>
         IN VertexLoop(points, width, i + 1,
                [vertices |-> acc.vertices
                                \o << <<x, 0, SideOffset(dir, -1, width, i, n)>>,
                                      <<x, 0, SideOffset(dir, 1, width, i, n)>> >>,
                 normals |-> acc.normals \o << <<0, 1, 0>>, <<0, 1, 0>> >>,
                 uvs |-> acc.uvs \o << <<0, progress>>, <<1, progress>> >>])

\* a quad whose second triangle is wound the other way
QuadIndicesFlipped(base) ==
    <<AsU32(base), AsU32(base + 1), AsU32(base + 2),
      AsU32(base + 1), AsU32(base + 2), AsU32(base + 3)>>

\* one quad of the index loop: two triangles
QuadIndices(base) ==
    <<AsU32(base), AsU32(base + 1), AsU32(base + 2),
      AsU32(base + 1), AsU32(base + 3), AsU32(base + 2)>>

\* for i in 0..(points.len() - 1) { let base = i * 2; ... }
RECURSIVE IndexLoop(_, _, _)
IndexLoop(n, i, acc) ==
    IF i >= n - 1 THEN acc
    ELSE IndexLoop(n, i + 1, acc \o QuadIndices(i * 2))

EmptyMesh == [vertices |-> <<>>, normals |-> <<>>, uvs |-> <<>>, indices |-> <<>>]

create_trail_mesh(points, width) ==
    IF Len(points) < 2 THEN EmptyMesh
    ELSE LET attrs == VertexLoop(points, width, 0,
                         [vertices |-> <<>>, normals |-> <<>>, uvs |-> <<>>])
         IN [vertices |-> attrs.vertices, normals |-> attrs.normals,
             uvs |-> attrs.uvs, indices |-> IndexLoop(Len(points), 0, <<>>)]

----------------------------------------------------------------------------
(* generate_trail_meshes *)

\* if trail.points.len() < 2 { continue; }
GateOpen(points) == Len(points) >= 2

\* a regeneration that spawns the new entity and leaves the old one
GenerateCommandsKeepOld(old_entity, mesh_entity, mesh) ==
    <<[op |-> "spawn", entity |-> mesh_entity, mesh |-> mesh]>>

\* despawn of the old entity, if any, then spawn of the new one
GenerateCommands(old_entity, mesh_entity, mesh) ==
    (IF old_entity # None
        THEN <<[op |-> "despawn", entity |-> old_entity]>>
        ELSE <<>>)
    \o <<[op |-> "spawn", entity |-> mesh_entity, mesh |-> mesh]>>

----------------------------------------------------------------------------
(* The Update schedule *)

Systems == {"update_trails", "generate_trail_meshes"}

\* app.add_systems(Update, (update_trails, generate_trail_meshes)): a tuple of
\* systems that is not chained puts no order between them
MayRun(system) == pc = "update" /\ system \notin ran

\* one command of the queue applied to the world
Apply(w, cmd) ==
    IF cmd.op = "spawn"
        THEN [e \in DOMAIN w \cup {cmd.entity} |->
                 IF e = cmd.entity THEN cmd.mesh ELSE w[e]]
        ELSE [e \in DOMAIN w \ {cmd.entity} |-> w[e]]

----------------------------------------------------------------------------
(* Initial states *)

Init ==
    \E max_points \in 0..MaxPoints, emit_rate \in EmitRates, width \in {MaxWidth} :
        /\ pc = "idle"
        /\ ran = {}
        /\ time = [elapsed |-> 0, delta |-> 0]
        /\ trail = TrailNew(max_points, emit_rate, width)
        /\ commands = <<>>
        /\ world = <<>>
        /\ nextEntity = 1
        /\ emitted = 0
        /\ agedOut = FALSE
        /\ lastEmit = <<>>
        /\ spawned = {}
        /\ lenPrev = 0
        /\ staleMesh = None

----------------------------------------------------------------------------
(* Actions *)

\* the host starts a frame: Time advances by the frame's delta
BeginFrame(delta) ==
    /\ pc = "idle"
    /\ time.elapsed + delta <= MaxTime
    /\ nextEntity <= MaxEntities
    /\ emitted + (IF JustFinished(TimerTick(trail.timer, delta)) THEN 1 ELSE 0)
           <= MaxEmit
    /\ pc' = "update"
    /\ ran' = {}
    /\ time' = [elapsed |-> time.elapsed + delta, delta |-> delta]
    /\ UNCHANGED <<trail, commands, world, nextEntity,
                   emitted, agedOut, lastEmit, spawned, lenPrev, staleMesh>>

\* transform.translation of the trail's owner at elapsed time now
Translation(now) == now

\* update_trails
UpdateTrails ==
    /\ MayRun("update_trails")
    /\ LET timer == TimerTick(trail.timer, time.delta)
           now == time.elapsed
           pushed == Emit(trail.points, timer, Translation(now), now, emitted)
           capped == CountCap(pushed, timer, trail.max_points)
           kept == AgeCap(capped, now)
           clean == CleanupNeeded(kept, trail.mesh_entity)
           count == Len(pushed) - Len(trail.points)
       IN /\ trail' = [trail EXCEPT !.timer = timer,
                                    !.points = kept,
                                    !.mesh_entity = IF clean THEN None ELSE @]
          /\ commands' = IF clean
                            THEN commands \o CleanupCommands(trail.mesh_entity)
                            ELSE commands
          /\ emitted' = emitted + count
          /\ agedOut' = (agedOut \/ Len(kept) < Len(capped))
          /\ lastEmit' = IF count > 0 THEN <<now>> ELSE lastEmit
    /\ ran' = ran \cup {"update_trails"}
    /\ UNCHANGED <<pc, time, world, nextEntity, spawned, lenPrev, staleMesh>>

\* generate_trail_meshes
GenerateTrailMeshes ==
    /\ MayRun("generate_trail_meshes")
    /\ IF GateOpen(trail.points)
          THEN LET mesh == create_trail_mesh(trail.points, trail.width)
                   mesh_entity == nextEntity
               IN /\ commands' = commands
                        \o GenerateCommands(trail.mesh_entity, mesh_entity, mesh)
                  /\ trail' = [trail EXCEPT !.mesh_entity = mesh_entity]
                  /\ nextEntity' = nextEntity + 1
                  /\ spawned' = spawned \cup {mesh_entity}
          ELSE UNCHANGED <<commands, trail, nextEntity, spawned>>
    /\ ran' = ran \cup {"generate_trail_meshes"}
    /\ UNCHANGED <<pc, time, world, emitted, agedOut, lastEmit, lenPrev, staleMesh>>

\* the schedule's systems have run: the next deferred command is applied
ApplyDeferred ==
    /\ pc = "update"
    /\ ran = Systems
    /\ commands # <<>>
    /\ world' = Apply(world, Head(commands))
    /\ commands' = Tail(commands)
    /\ UNCHANGED <<pc, ran, time, trail, nextEntity,
                   emitted, agedOut, lastEmit, spawned, lenPrev, staleMesh>>

\* every command is applied: the frame is over
EndFrame ==
    /\ pc = "update"
    /\ ran = Systems
    /\ commands = <<>>
    /\ pc' = "idle"
    /\ lenPrev' = Len(trail.points)
    /\ staleMesh' = IF lenPrev >= 2 /\ Len(trail.points) = 1
                       THEN trail.mesh_entity
                       ELSE None
    /\ UNCHANGED <<ran, time, trail, commands, world, nextEntity,
                   emitted, agedOut, lastEmit, spawned>>

\* max_points is a pub field: the host may set it between frames
SetMaxPoints(max_points) ==
    /\ pc = "idle"
    /\ max_points # trail.max_points
    /\ trail' = [trail EXCEPT !.max_points = max_points]
    /\ UNCHANGED <<pc, ran, time, commands, world, nextEntity,
                   emitted, agedOut, lastEmit, spawned, lenPrev, staleMesh>>

Frame ==
    \/ \E delta \in Deltas : BeginFrame(delta)
    \/ UpdateTrails
    \/ GenerateTrailMeshes
    \/ ApplyDeferred
    \/ EndFrame

Next ==
    \/ Frame
    \/ \E max_points \in 0..MaxPoints : SetMaxPoints(max_points)

Spec == Init /\ [][Next]_vars

\* the same program with max_points left as constructed
SpecFixed == Init /\ [][Frame]_vars

\* the schedule as section 5 of the specification orders it: update_trails,
\* then generate_trail_meshes
UpdateFirst == "generate_trail_meshes" \notin ran /\ UpdateTrails
GenerateSecond == "update_trails" \in ran /\ GenerateTrailMeshes

NextInOrder ==
    \/ \E delta \in Deltas : BeginFrame(delta)
    \/ UpdateFirst
    \/ GenerateSecond
    \/ ApplyDeferred
    \/ EndFrame
    \/ \E max_points \in 0..MaxPoints : SetMaxPoints(max_points)

\* the behaviours of Spec in which every frame runs the two systems in order
SpecInOrder == Init /\ [][NextInOrder]_vars

----------------------------------------------------------------------------
(* create_trail_mesh on its own: a frame in which update_trails has run    *)
(* and left a buffer of n points, one pushed a second, at any positions;   *)
(* generate_trail_meshes then builds the mesh and the frame ends.          *)

\* the buffers of n points pushed at seconds 1..n
Buffers(n) ==
    {[i \in 1..n |-> TrailPoint(xs[i], i, i)] : xs \in [1..n -> Positions]}

InitMesh ==
    \E n \in 0..MaxLen, width \in Widths :
        \E points \in Buffers(n) :
            /\ pc = "update"
            /\ ran = {"update_trails"}
            /\ time = [elapsed |-> n, delta |-> IF n = 0 THEN 0 ELSE 1]
            /\ trail = [TrailNew(MaxLen, RateBase, width) EXCEPT
                            !.points = points,
                            !.timer = TimerTick(@, IF n = 0 THEN 0 ELSE 1)]
            /\ commands = <<>>
            /\ world = <<>>
            /\ nextEntity = 1
            /\ emitted = n
            /\ agedOut = FALSE
            /\ lastEmit = IF n = 0 THEN <<>> ELSE <<n>>
            /\ spawned = {}
            /\ lenPrev = IF n = 0 THEN 0 ELSE n - 1
            /\ staleMesh = None

NextMesh ==
    \/ GenerateTrailMeshes
    \/ ApplyDeferred
    \/ EndFrame

SpecMesh == InitMesh /\ [][NextMesh]_vars

----------------------------------------------------------------------------
(* The claims *)

UpdateRan == "update_trails" \in ran
EndOfTick == pc = "update" /\ ran = Systems /\ commands = <<>>
Points == trail.points

\* C1: immediately after update_trails has run, the buffer holds at most
\* max_points points, whatever max_points is on that tick.
C1_CountCapAfterUpdate ==
    (pc = "update" /\ UpdateRan) => Len(Points) <= trail.max_points

\* C2: after update_trails has run on a tick with elapsed time T, every point
\* of the buffer, not only the front one, has T - timestamp <= max_age.
C2_NoPointOlderThanMaxAge ==
    UpdateRan =>
        \A i \in 1..Len(Points) : time.elapsed - Points[i].timestamp <= max_age

\* a point that is exactly max_age old stays, behind it a younger one, after
\* the age cap has removed older points
C2_Witness ==
    /\ UpdateRan
    /\ agedOut
    /\ Len(Points) = 2
    /\ time.elapsed - Points[1].timestamp = max_age

\* the mesh entities of the trail that are in the world
LiveMeshes == spawned \cap DOMAIN world

\* C3: at the end of every tick that leaves the buffer empty, mesh_entity is
\* None and no mesh entity of the trail is left in the world.
C3_EmptyBufferRetiresMesh ==
    (EndOfTick /\ Points = <<>>) =>
        (trail.mesh_entity = None /\ LiveMeshes = {})

\* the buffer went from 2 or more points to none in one tick, and a mesh
\* had been spawned before
C3_Witness ==
    /\ EndOfTick
    /\ Points = <<>>
    /\ lenPrev >= 2
    /\ spawned # {}
    /\ trail.mesh_entity = None

\* the entities whose spawn is queued, and those whose despawn is queued
QueuedSpawns == {commands[i].entity : i \in {j \in DOMAIN commands : commands[j].op = "spawn"}}
QueuedDespawns == {commands[i].entity : i \in {j \in DOMAIN commands : commands[j].op = "despawn"}}

\* the entities spawned for the trail whose despawn has not been asked for
NotDespawned == (spawned \cap (DOMAIN world \cup QueuedSpawns)) \ QueuedDespawns

\* C4: of the mesh entities spawned for the trail, the only one not despawned
\* is the one in mesh_entity, and the world never holds two of them: the
\* despawn of the old entity goes before the spawn of the new one.
C4_AtMostOneLiveMesh ==
    /\ NotDespawned = (IF trail.mesh_entity = None THEN {} ELSE {trail.mesh_entity})
    /\ Cardinality(LiveMeshes) <= 1

\* a regenerated mesh has taken the place of an earlier one
C4_Witness ==
    /\ EndOfTick
    /\ Cardinality(spawned) >= 2
    /\ trail.mesh_entity # None
    /\ LiveMeshes = {trail.mesh_entity}

\* C5: the buffer is the last Len(points) of the points pushed so far, in the
\* order pushed; while the age cap has removed nothing it is exactly the last
\* min(k, max_points) of the k points pushed.
C5_BufferIsSuffixOfEmitted ==
    /\ \A i \in 1..Len(Points) : Points[i].n = emitted - Len(Points) + i
    /\ ~agedOut => Len(Points) = Min(emitted, trail.max_points)

\* more points were pushed than max_points, and the count cap kept the last
C5_Witness ==
    /\ UpdateRan
    /\ ~agedOut
    /\ trail.max_points >= 1
    /\ emitted > trail.max_points
    /\ Len(Points) = trail.max_points
    /\ Points[Len(Points)].n = emitted

\* C6: update_trails pushes exactly one point on a tick in which the timer
\* completed at least one interval and none otherwise, whatever the delta.
C6_OnePointPerTick ==
    [][(~UpdateRan /\ UpdateRan') =>
          /\ emitted' - emitted =
                 (IF trail.timer.elapsed + time.delta >= trail.timer.duration
                     THEN 1 ELSE 0)
          /\ Len(Points') <= Len(Points) + 1]_vars

\* a delta of several intervals has pushed the one point of the buffer
C6_Witness ==
    /\ UpdateRan
    /\ trail.timer.times_finished >= 2
    /\ emitted = 1
    /\ Len(Points) = 1

\* C7 as claimed: two points pushed one after the other are at least the
\* emission interval apart.
C7_IntervalApart ==
    [][(~UpdateRan /\ UpdateRan' /\ emitted' > emitted /\ lastEmit # <<>>) =>
          lastEmit'[1] - lastEmit[1] >= trail.timer.duration]_vars

\* C7 as amended: two points pushed one after the other lie in different
\* periods [k * interval, (k + 1) * interval) of the time since the trail was
\* made, the later one in a later period.
C7_DifferentPeriods ==
    [][(~UpdateRan /\ UpdateRan' /\ emitted' > emitted /\ lastEmit # <<>>) =>
          lastEmit'[1] \div trail.timer.duration
              > lastEmit[1] \div trail.timer.duration]_vars

\* two points of the buffer are closer than the interval
C7_Witness ==
    /\ UpdateRan
    /\ Len(Points) = 2
    /\ Points[2].timestamp - Points[1].timestamp < trail.timer.duration
    /\ lastEmit = <<Points[2].timestamp>>

\* C8: in every tick update_trails has run before generate_trail_meshes runs.
C8_UpdateBeforeGenerate ==
    "generate_trail_meshes" \in ran => UpdateRan

\* the mesh of the trail's entity
TrailMesh == world[trail.mesh_entity]

\* C9: for a buffer of N >= 2 points the mesh has 2N vertices and 6(N-1)
\* indices, quad i being (2i, 2i+1, 2i+2) then (2i+1, 2i+3, 2i+2), and every
\* index is less than 2N.
C9_MeshLayout ==
    (trail.mesh_entity \in DOMAIN world /\ Len(Points) >= 2) =>
        LET N == Len(Points)
            indices == TrailMesh.indices
        IN /\ Len(TrailMesh.vertices) = 2 * N
           /\ Len(indices) = 6 * (N - 1)
           /\ \A i \in 0..(N - 2) :
                 SubSeq(indices, 6 * i + 1, 6 * i + 6)
                     = <<2 * i, 2 * i + 1, 2 * i + 2, 2 * i + 1, 2 * i + 3, 2 * i + 2>>
           /\ \A k \in 1..Len(indices) : indices[k] < 2 * N

\* the mesh of the longest buffer is in the world
C9_Witness ==
    /\ trail.mesh_entity \in DOMAIN world
    /\ Len(Points) = MaxLen
    /\ Len(TrailMesh.indices) = 6 * (MaxLen - 1)

\* C10: the mesh that was live when the buffer dropped from 2 or more points
\* to 1 is no longer the trail's mesh at the end of the following tick.
C10_StaleMeshOneTick ==
    (EndOfTick /\ staleMesh # None) => trail.mesh_entity # staleMesh

====
